---- MODULE Spec2Model ----
(***************************************************************************)
(* Model of MagicLinkStrategy.authenticate (src/src/index.ts).             *)
(*                                                                         *)
(* The strategy itself is stateless.  The state of the model is the        *)
(* environment one authenticate call runs in: the configured options, the  *)
(* wall clock, what the caller's callback kept of the last issuance (the   *)
(* key in its session, the token in the link), and the observable trace of *)
(* the call that has just completed.                                       *)
(*                                                                         *)
(* The calls into jose (SignJWT, jwtVerify) and node (randomBytes, Buffer) *)
(* are modelled at their call sites by what those library functions do:    *)
(*   - SignJWT.setExpirationTime(n) with a number n stores n itself as the *)
(*     "exp" claim (only a string such as "5m" is added to the clock);     *)
(*   - jwtVerify checks the compact form, then the HMAC, then the claims   *)
(*     ("exp" against now - tolerance, "iat" against maxTokenAge), and     *)
(*     throws a different error class for each kind of failure;            *)
(*   - HMAC pads a key shorter than its block with zero bytes, so a key    *)
(*     and the same key followed by zero bytes compute the same MAC;       *)
(*   - Buffer.from(s, "base64url") ignores the unused low bits of the last *)
(*     character, so several strings decode to the same bytes.             *)
(***************************************************************************)
EXTENDS Integers, Sequences, FiniteSets, TLC

VARIABLES options, clock, session, last

vars == <<options, clock, session, last>>

(***************************************************************************)
(* Program constants.                                                      *)
(***************************************************************************)
\* clockTolerance: 10
Tolerance == 10
\* 5 * 60
DefaultExpiresIn == 300

(***************************************************************************)
(* Bounds of the model.                                                    *)
(***************************************************************************)
\* the clock (seconds since the epoch) when the model starts
StartClock == 1000
\* issuance happens during the first IssueWindow seconds
IssueWindow == 1
\* a short configured lifetime
ShortExpiresIn == 3
\* the clock is followed until MaxLate seconds after a token's window has closed
MaxLate == 1
\* time passes second by second, or in one long wait of LongWait seconds
LongWait == 295

(***************************************************************************)
(* JSON values of a token payload: strings and numbers are different.      *)
(***************************************************************************)
Str(s) == [s |-> s]
Num(n) == [n |-> n]
IsNum(v) == DOMAIN v = {"n"}

(***************************************************************************)
(* new MagicLinkStrategy(options, verify): options.expiresIn is optional.  *)
(***************************************************************************)
NoExpiresIn == [has |-> FALSE, expiresIn |-> 0]
ExpiresIn(n) == [has |-> TRUE, expiresIn |-> n]
ExpiresInValues == {0, ShortExpiresIn, 2 * StartClock}
OptionsValues == {NoExpiresIn} \cup {ExpiresIn(n) : n \in ExpiresInValues}

\* this.options.expiresIn || 5 * 60   (undefined and 0 are falsy)
LifetimeIgnoringOption(opts) == DefaultExpiresIn
Lifetime(opts) ==
    IF opts.has /\ opts.expiresIn # 0 THEN opts.expiresIn ELSE DefaultExpiresIn

(***************************************************************************)
(* url.searchParams.get(name): null when absent, else the string.          *)
(***************************************************************************)
Absent == [st |-> "absent"]
Empty == [st |-> "empty"]
Value(v) == [st |-> "value", v |-> v]
\* JavaScript truthiness of string | null: null and "" are falsy
Truthy(p) == p.st = "value"
Carried(p) == p.st # "absent"

(***************************************************************************)
(* Keys.  crypto.randomBytes(32) is modelled by short byte strings.        *)
(***************************************************************************)
RandomKeys == {<<1>>, <<2>>}
\* Buffer.from(key).toString("base64url"): the canonical encoding
ToBase64Url(bytes) == [bytes |-> bytes, slack |-> 0]
\* Buffer.from(key, "base64url"): the unused bits of the last character are dropped
FromBase64Url(s) == s.bytes

RECURSIVE StripZeros(_)
StripZeros(b) ==
    IF Len(b) > 0 /\ b[Len(b)] = 0 THEN StripZeros(SubSeq(b, 1, Len(b) - 1)) ELSE b
\* HMAC-SHA-256 zero-pads a key shorter than its 64-byte block
HmacKey(bytes) == StripZeros(bytes)
\* the HS256 signature over the signing input, as an ideal MAC
Mac(bytes, payload) == [k |-> HmacKey(bytes), p |-> payload]

(***************************************************************************)
(* Forms and payloads.  A FormData is a sequence of <<name, value>>.       *)
(***************************************************************************)
Forms == { << <<"email", "a@b.com">> >>,
           << <<"email", "a@b.com">>, <<"exp", "4102444800">>, <<"iat", "0">> >>,
           << <<"email", "invalid-email">> >> }
NoForm == << <<"%", "not form data">> >>
IsForm(body) == body \in Forms

FieldNames(form) == {form[i][1] : i \in DOMAIN form}
LastIndex(form, n) ==
    CHOOSE i \in DOMAIN form :
        /\ form[i][1] = n
        /\ \A j \in DOMAIN form : form[j][1] = n => j <= i
\* Object.fromEntries(form): the last entry of a name wins
FromEntries(form) == [n \in FieldNames(form) |-> Str(form[LastIndex(form, n)][2])]

SetClaim(p, name, v) == [n \in DOMAIN p \cup {name} |-> IF n = name THEN v ELSE p[n]]
\* .setIssuedAt(): iat = the current time
SetIssuedAt(p, now) == SetClaim(p, "iat", Num(now))
\* .setExpirationTime(input) with a number: the number is the claim
SetExpirationTimeRelative(p, input, now) == SetClaim(p, "exp", Num(now + input))
SetExpirationTime(p, input, now) == SetClaim(p, "exp", Num(input))
\* .sign(key)
Sign(p, bytes) == [wf |-> TRUE, payload |-> p, mac |-> Mac(bytes, p)]

\* new SignJWT(Object.fromEntries(form)) ... .sign(key)
MintTokenFormLast(form, bytes, opts, now) ==
    Sign([n \in FieldNames(form) \cup {"iat", "exp"} |->
            IF n \in FieldNames(form) THEN FromEntries(form)[n]
            ELSE IF n = "iat" THEN Num(now) ELSE Num(Lifetime(opts))],
         bytes)
MintToken(form, bytes, opts, now) ==
    Sign(SetExpirationTime(SetIssuedAt(FromEntries(form), now), Lifetime(opts), now),
         bytes)

(***************************************************************************)
(* jwtVerify(jwt, key, { clockTolerance, maxTokenAge }).                   *)
(***************************************************************************)
NoError == "none"
JoseErrors == {"JWSInvalid", "JWSSignatureVerificationFailed",
               "JWTExpired", "JWTClaimValidationFailed"}

\* the claims checks of jwtVerify, in jose's order; maxTokenAge makes "iat" required
ValidateClaimsSet(payload, now, maxTokenAge, tolerance) ==
    IF "iat" \notin DOMAIN payload THEN "JWTClaimValidationFailed"
    ELSE IF ~IsNum(payload["iat"]) THEN "JWTClaimValidationFailed"
    ELSE IF "exp" \in DOMAIN payload /\ ~IsNum(payload["exp"])
        THEN "JWTClaimValidationFailed"
    ELSE IF "exp" \in DOMAIN payload /\ payload["exp"].n <= now - tolerance
        THEN "JWTExpired"
    ELSE IF maxTokenAge # 0 /\ (now - payload["iat"].n) - tolerance > maxTokenAge
        THEN "JWTExpired"
    ELSE IF maxTokenAge # 0 /\ (now - payload["iat"].n) < 0 - tolerance
        THEN "JWTClaimValidationFailed"
    ELSE NoError

\* compact form and signature, checked before any claim
CompactVerifyNoSignature(jwt, bytes) ==
    IF ~jwt.wf THEN "JWSInvalid" ELSE NoError
CompactVerify(jwt, bytes) ==
    IF ~jwt.wf THEN "JWSInvalid"
    ELSE IF jwt.mac # Mac(bytes, jwt.payload) THEN "JWSSignatureVerificationFailed"
    ELSE NoError

JwtVerify(jwt, bytes, now, maxTokenAge, tolerance) ==
    IF CompactVerify(jwt, bytes) # NoError THEN CompactVerify(jwt, bytes)
    ELSE ValidateClaimsSet(jwt.payload, now, maxTokenAge, tolerance)

(***************************************************************************)
(* The outcome handed to the verify callback.                              *)
(***************************************************************************)
GenerateOptionsNoForm(form, token, bytes) ==
    [token |-> token, key |-> ToBase64Url(bytes)]
GenerateOptions(form, token, bytes) ==
    [form |-> form, token |-> token, key |-> ToBase64Url(bytes)]
ValidateOptionsFormOnly(payload, jwt, key) ==
    [form |-> [n \in DOMAIN payload \ {"iat", "exp"} |-> payload[n]], token |-> jwt]
ValidateOptionsWithKey(payload, jwt, key) ==
    [form |-> payload, token |-> jwt, key |-> key]
ValidateOptions(payload, jwt, key) ==
    [form |-> payload, token |-> jwt]

(***************************************************************************)
(* authenticate(request): the dispatch on the two query parameters.        *)
(***************************************************************************)
\* the caller's verify function, as one call sees it: it returns or it throws
NoValue == "undefined"
Returns(v, keeps) == [does |-> "returns", v |-> v, keeps |-> keeps]
Throws(e) == [does |-> "throws", v |-> e, keeps |-> FALSE]

MissingKeyError == "Attempted to validate, but missing key in URL."
MissingTokenError == "Attempted to validate, but missing token in URL."
UnexpectedStateError == "Unexpected state."
FormDataError == "TypeError"

DispatchNoGuards(jwt, key) ==
    IF ~Truthy(jwt) /\ ~Truthy(key) THEN "generate"
    ELSE IF Truthy(jwt) /\ Truthy(key) THEN "validate"
    ELSE "unexpected"
DispatchValidateSlip(jwt, key) ==
    IF Truthy(jwt) /\ ~Truthy(key) THEN "missingKey"
    ELSE IF ~Truthy(jwt) /\ Truthy(key) THEN "missingToken"
    ELSE IF ~Truthy(jwt) /\ ~Truthy(key) THEN "generate"
    ELSE IF Truthy(jwt) /\ ~Truthy(key) THEN "validate"
    ELSE "unexpected"
DispatchStrictNull(jwt, key) ==
    IF Truthy(jwt) /\ ~Carried(key) THEN "missingKey"
    ELSE IF ~Carried(jwt) /\ Truthy(key) THEN "missingToken"
    ELSE IF ~Truthy(jwt) /\ ~Truthy(key) THEN "generate"
    ELSE IF Truthy(jwt) /\ Truthy(key) THEN "validate"
    ELSE "unexpected"
Dispatch(jwt, key) ==
    IF Truthy(jwt) /\ ~Truthy(key) THEN "missingKey"
    ELSE IF ~Truthy(jwt) /\ Truthy(key) THEN "missingToken"
    ELSE IF ~Truthy(jwt) /\ ~Truthy(key) THEN "generate"
    ELSE IF Truthy(jwt) /\ Truthy(key) THEN "validate"
    ELSE "unexpected"

\* what one call did, in the order it did it
Trace(mode, error) ==
    [mode |-> mode, error |-> error, returned |-> NoValue,
     randomBytes |-> << >>, setExpirationTime |-> << >>, signed |-> << >>,
     jwtVerify |-> << >>, callback |-> << >>, verify |-> << >>]

\* return await this.verify(outcome): one invocation, its result or its error
AwaitVerifyWrapping(trace, outcome, verify) ==
    IF verify.does = "returns"
    THEN [trace EXCEPT !.callback = <<outcome>>, !.verify = <<verify>>,
                       !.returned = verify.v]
    ELSE [trace EXCEPT !.callback = <<outcome>>, !.verify = <<verify>>,
                       !.error = "JWSInvalid"]
AwaitVerify(trace, outcome, verify) ==
    IF verify.does = "returns"
    THEN [trace EXCEPT !.callback = <<outcome>>, !.verify = <<verify>>,
                       !.returned = verify.v]
    ELSE [trace EXCEPT !.callback = <<outcome>>, !.verify = <<verify>>,
                       !.error = verify.v]

Generate(body, rnd, verify, opts, now) ==
    IF ~IsForm(body) THEN Trace("issuer", FormDataError)
    ELSE AwaitVerify([Trace("issuer", NoError) EXCEPT
                        !.randomBytes = <<rnd>>,
                        !.setExpirationTime = <<Lifetime(opts)>>,
                        !.signed = <<MintToken(body, rnd, opts, now)>>],
                     GenerateOptions(body, MintToken(body, rnd, opts, now), rnd),
                     verify)

ValidateUnchecked(jwt, key, verify, opts, now) ==
    AwaitVerify([Trace("verifier", NoError) EXCEPT
                    !.jwtVerify = <<[jwt |-> jwt, key |-> FromBase64Url(key),
                                     clockTolerance |-> Tolerance,
                                     maxTokenAge |-> Lifetime(opts)]>>],
                ValidateOptions(jwt.payload, jwt, key), verify)
ValidateSingleUse(jwt, key, verify, opts, now) ==
    LET call == [jwt |-> jwt, key |-> FromBase64Url(key),
                 clockTolerance |-> Tolerance, maxTokenAge |-> Lifetime(opts)]
        err == JwtVerify(jwt, FromBase64Url(key), now, Lifetime(opts), Tolerance)
        used == /\ last.did.mode = "verifier" /\ last.did.callback # << >>
                /\ last.req.token = Value(jwt)
    IN  IF err # NoError \/ used
        THEN [Trace("verifier", IF used THEN "JWTExpired" ELSE err)
                EXCEPT !.jwtVerify = <<call>>]
        ELSE AwaitVerify([Trace("verifier", NoError) EXCEPT !.jwtVerify = <<call>>],
                         ValidateOptions(jwt.payload, jwt, key), verify)
Validate(jwt, key, verify, opts, now) ==
    LET bytes == FromBase64Url(key)
        call == [jwt |-> jwt, key |-> bytes,
                 clockTolerance |-> Tolerance, maxTokenAge |-> Lifetime(opts)]
        err == JwtVerify(jwt, bytes, now, Lifetime(opts), Tolerance)
    IN  IF err # NoError
        THEN [Trace("verifier", err) EXCEPT !.jwtVerify = <<call>>]
        ELSE AwaitVerify([Trace("verifier", NoError) EXCEPT !.jwtVerify = <<call>>],
                         ValidateOptions(jwt.payload, jwt, key), verify)

Authenticate(request, rnd, verify, opts, now) ==
    LET mode == Dispatch(request.token, request.key)
    IN  IF mode = "missingKey" THEN Trace("none", MissingKeyError)
        ELSE IF mode = "missingToken" THEN Trace("none", MissingTokenError)
        ELSE IF mode = "generate" THEN Generate(request.body, rnd, verify, opts, now)
        ELSE IF mode = "validate"
            THEN Validate(request.token.v, request.key.v, verify, opts, now)
        ELSE Trace("none", UnexpectedStateError)

(***************************************************************************)
(* The environment: the caller's callback and the requests it receives.    *)
(***************************************************************************)
\* no call has completed at this instant
Idle == [Trace("idle", NoError) EXCEPT !.callback = << >>]
Completed(request, trace, now) == [req |-> request, at |-> now, did |-> trace]
NoCall == [req |-> [token |-> Absent, key |-> Absent, body |-> NoForm],
           at |-> 0, did |-> Idle]

\* the callback's generation branch: the key goes to a session, the token to a link
NoSession == [has |-> FALSE]
Stored(outcome, now, opts) ==
    [has |-> TRUE, form |-> outcome.form, token |-> outcome.token,
     key |-> outcome.key, at |-> now, lifetime |-> Lifetime(opts)]

\* a token whose payload was altered after signing
Tampered(jwt) ==
    [jwt EXCEPT !.payload = SetClaim(@, "exp", Num(2000000000))]
\* a string that is not a compact JWS
Garbage ==
    [wf |-> FALSE, payload |-> FromEntries(<< <<"x", "x">> >>),
     mac |-> Mac(<< >>, FromEntries(<< <<"x", "x">> >>))]

\* key strings a request may carry: canonical and non-canonical encodings
PresentedBytes == RandomKeys \cup {<<1, 0>>}
KeyStrings ==
    {ToBase64Url(b) : b \in PresentedBytes} \cup {[bytes |-> <<1>>, slack |-> 1]}
TokenStrings(s) ==
    {Garbage} \cup (IF s.has THEN {s.token, Tampered(s.token)} ELSE {})

TokenParams(s) == {Absent, Empty} \cup {Value(t) : t \in TokenStrings(s)}
KeyParams == {Absent, Empty} \cup {Value(k) : k \in KeyStrings}
\* a POST of a form, or a GET (no decodable body) of any URL
Requests(s) ==
    {[token |-> t, key |-> k, body |-> b] :
        t \in TokenParams(s), k \in KeyParams, b \in {NoForm}}
    \cup
    {[token |-> t, key |-> k, body |-> b] :
        t \in {Absent, Empty}, k \in {Absent, Empty}, b \in Forms}
    \cup
    {[token |-> Value(Garbage), key |-> Absent, body |-> b] : b \in Forms}

Issues(request) ==
    Dispatch(request.token, request.key) = "generate" /\ IsForm(request.body)

\* randomBytes is drawn only by a call that reaches it
Draws(request) == IF Issues(request) THEN RandomKeys ELSE {<< >>}

\* what the caller's verify function may do when a call reaches it: send the
\* link and keep the key in this session, send it for a user whose session is
\* another one, or throw; on validation, return the user or throw
CallbackError == "user not found"
Verifies(request, opts, now) ==
    IF Issues(request)
    THEN {Returns("link sent", TRUE), Returns("link sent", FALSE), Throws(CallbackError)}
    ELSE IF /\ Dispatch(request.token, request.key) = "validate"
            /\ JwtVerify(request.token.v, FromBase64Url(request.key.v), now,
                         Lifetime(opts), Tolerance) = NoError
    THEN {Returns("user", FALSE), Throws(CallbackError)}
    ELSE {Returns("user", FALSE)}

\* the seconds after StartClock in which a short-lived token's window closes
Near == IssueWindow + ShortExpiresIn + Tolerance + MaxLate
\* the last second followed: a default-lifetime token's window has closed
Horizon == StartClock + IssueWindow + DefaultExpiresIn + Tolerance + MaxLate

Init ==
    /\ options \in OptionsValues
    /\ clock = StartClock
    /\ session = NoSession
    /\ last = NoCall

\* one call of authenticate, start to finish, with the callback it makes
AuthenticateCall(request, rnd, verify) ==
    LET trace == Authenticate(request, rnd, verify, options, clock)
    IN  /\ Issues(request) => clock < StartClock + IssueWindow
        /\ last' = Completed(request, trace, clock)
        /\ session' = IF trace.mode = "issuer" /\ trace.callback # << >> /\ verify.keeps
                      THEN Stored(trace.callback[1], clock, options)
                      ELSE session
        /\ UNCHANGED <<options, clock>>

\* time passes: a second, or the long wait
Tick(d) ==
    /\ clock + d <= Horizon
    /\ d = 1 => (clock < StartClock + Near \/ clock >= StartClock + LongWait)
    /\ clock' = clock + d
    /\ last' = NoCall
    /\ UNCHANGED <<options, session>>

Next ==
    \/ \E request \in Requests(session) : \E rnd \in Draws(request) :
          \E verify \in Verifies(request, options, clock) :
             AuthenticateCall(request, rnd, verify)
    \/ \E d \in {1, LongWait} : Tick(d)

Spec == Init /\ [][Next]_vars

(***************************************************************************)
(* Vocabulary of the properties.                                           *)
(***************************************************************************)
Did == last.did
InIssuer == Did.mode = "issuer"
InVerifier == Did.mode = "verifier"
\* the call failed by itself, before it reached the callback
Failed == Did.error # NoError /\ Did.callback = << >>
\* the call failed inside jwtVerify: the spec's AuthenticationFailure
AuthenticationFailure == InVerifier /\ Did.error \in JoseErrors
NoCallback == Did.callback = << >>
NothingDone ==
    /\ Did.randomBytes = << >> /\ Did.signed = << >>
    /\ Did.jwtVerify = << >> /\ NoCallback
\* the call presented the token of the stored issuance
PresentsIssuedToken ==
    session.has /\ InVerifier /\ last.req.token = Value(session.token)
\* ... together with the key its callback was given
PresentsIssuedPair == PresentsIssuedToken /\ last.req.key = Value(session.key)

(***************************************************************************)
(* C1. Round trip: verifying an issued token with its key at the instant   *)
(* of issuance succeeds and hands the callback a form equal to the form    *)
(* that was submitted.                                                     *)
(***************************************************************************)
C1_RoundTrip ==
    (PresentsIssuedPair /\ last.at = session.at) =>
        /\ ~Failed
        /\ Len(Did.callback) = 1
        /\ Did.callback[1].form = FromEntries(session.form)

(***************************************************************************)
(* C2. Key mismatch: an issued token presented with any key string other   *)
(* than the one issued with it fails with AuthenticationFailure, whatever  *)
(* the clock, and the callback is not invoked.                             *)
(***************************************************************************)
C2_AnyOtherKeyString ==
    (PresentsIssuedToken /\ last.req.key # Value(session.key)) =>
        AuthenticationFailure /\ NoCallback

\* C2 as amended: the same for every key string that does not decode to the
\* HMAC key of the issuance (the same bytes up to trailing zero bytes).
SameHmacKey(k1, k2) == HmacKey(k1.bytes) = HmacKey(k2.bytes)
C2_OtherKey ==
    (PresentsIssuedToken /\ ~SameHmacKey(last.req.key.v, session.key)) =>
        AuthenticationFailure /\ NoCallback
\* a foreign key is presented at a moment the right key would have been accepted
C2_Witness ==
    /\ PresentsIssuedToken /\ ~SameHmacKey(last.req.key.v, session.key)
    /\ session.token.payload["exp"].n > clock
    /\ Did.error = "JWSSignatureVerificationFailed"

(***************************************************************************)
(* C3. Expiry boundary: an issued token presented with its key fails with  *)
(* AuthenticationFailure at issuedAt + E + tolerance + 1 and succeeds at   *)
(* issuedAt + E + tolerance - 1.                                           *)
(***************************************************************************)
C3_ExpiryBoundary ==
    /\ (PresentsIssuedPair /\ last.at = session.at + session.lifetime + Tolerance + 1)
          => AuthenticationFailure
    /\ (PresentsIssuedPair /\ last.at = session.at + session.lifetime + Tolerance - 1)
          => ~Failed

(***************************************************************************)
(* C4. A token minted at clock value now carries iat = now and             *)
(* exp = now + expiresIn.                                                  *)
(***************************************************************************)
C4_ExpiryAfterIssuedAt ==
    (InIssuer /\ Did.signed # << >>) =>
        /\ Did.signed[1].payload["iat"] = Num(last.at)
        /\ Did.signed[1].payload["exp"] = Num(last.at + Did.setExpirationTime[1])

(***************************************************************************)
(* C5. The lifetime given to issuance and the maximum age given to         *)
(* verification are the configured expiresIn when one is provided, and 300 *)
(* when none is.                                                           *)
(***************************************************************************)
LifetimeUsed(n) ==
    /\ Did.setExpirationTime # << >> => Did.setExpirationTime[1] = n
    /\ Did.jwtVerify # << >> => Did.jwtVerify[1].maxTokenAge = n
Rejected(message) == Did.mode = "none" /\ Did.error = message /\ NothingDone
C6_ExactlyOneCarried ==
    /\ (Carried(last.req.token) /\ ~Carried(last.req.key) /\ Did.mode # "idle")
          => Rejected(MissingKeyError)
    /\ (~Carried(last.req.token) /\ Carried(last.req.key) /\ Did.mode # "idle")
          => Rejected(MissingTokenError)

\* C6 as amended: ... exactly one of token and key with a non-empty value ...
C6_ExactlyOneNonEmpty ==
    /\ (Truthy(last.req.token) /\ ~Truthy(last.req.key)) => Rejected(MissingKeyError)
    /\ (~Truthy(last.req.token) /\ Truthy(last.req.key)) => Rejected(MissingTokenError)
\* a form posted to a URL with a token and no key is rejected
C6_Witness ==
    /\ Truthy(last.req.token) /\ last.req.key = Absent /\ IsForm(last.req.body)
    /\ Rejected(MissingKeyError)

(***************************************************************************)
(* C7. Mode selection: both parameters absent runs Issuer mode; both       *)
(* present runs Verifier mode, which verifies the token with the supplied  *)
(* key and generates no key.                                               *)
(***************************************************************************)
RanVerifier ==
    /\ InVerifier
    /\ Len(Did.jwtVerify) = 1
    /\ Did.jwtVerify[1].jwt = last.req.token.v
    /\ Did.jwtVerify[1].key = last.req.key.v.bytes
    /\ Did.randomBytes = << >>
C7_BothCarried ==
    /\ (last.req.token = Absent /\ last.req.key = Absent /\ Did.mode # "idle")
          => InIssuer
    /\ (Carried(last.req.token) /\ Carried(last.req.key)) => RanVerifier

\* C7 as amended: ... both present with non-empty values runs Verifier mode ...
C7_BothNonEmpty ==
    /\ (last.req.token = Absent /\ last.req.key = Absent /\ Did.mode # "idle")
          => InIssuer
    /\ (Truthy(last.req.token) /\ Truthy(last.req.key)) => RanVerifier
\* a link followed with its key appended, after its issuance
C7_Witness == PresentsIssuedPair /\ RanVerifier

(***************************************************************************)
(* C8. No key leakage: the outcome of a successful verification holds form *)
(* and token and no key; only an issuance hands the callback a key.        *)
(***************************************************************************)
C8_NoKeyLeak ==
    /\ (InVerifier /\ ~Failed) =>
          Len(Did.callback) = 1 /\ DOMAIN Did.callback[1] = {"form", "token"}
    /\ \A i \in DOMAIN Did.callback : "key" \in DOMAIN Did.callback[i] => InIssuer
C8_Witness ==
    /\ PresentsIssuedPair /\ ~Failed
    /\ Did.callback = << [form |-> session.token.payload, token |-> session.token] >>

C10_UniformFailure ==
    [][(AuthenticationFailure /\ AuthenticationFailure')
          => last'.did.error = last.did.error]_vars

(***************************************************************************)
(* C11. Callback pass-through: the callback is invoked at most once per    *)
(* call, and the call returns exactly what it returned or fails with       *)
(* exactly what it threw.                                                  *)
(***************************************************************************)
C11_PassThrough ==
    /\ Len(Did.callback) <= 1
    /\ Len(Did.callback) = 1 =>
          /\ Len(Did.verify) = 1
          /\ Did.verify[1].does = "returns" =>
                Did.error = NoError /\ Did.returned = Did.verify[1].v
          /\ Did.verify[1].does = "throws" =>
                Did.error = Did.verify[1].v /\ Did.returned = NoValue
\* the callback of a verification threw
C11_Witness ==
    /\ InVerifier /\ Len(Did.callback) = 1
    /\ Did.verify[1].does = "throws" /\ Did.error = CallbackError

ValidEmail(v) == v \in {"a@b.com"}
C14_EmailValidated ==
    (/\ InIssuer /\ IsForm(last.req.body)
     /\ "email" \in FieldNames(last.req.body)
     /\ ~ValidEmail(FromEntries(last.req.body)["email"].s)) =>
        Failed /\ Did.signed = << >>

(***************************************************************************)
(* C15. Callback ordering: the callback is invoked only after the branch's *)
(* own work succeeded, and a call that fails as malformed, undecodable or  *)
(* unauthenticated does not invoke it.                                     *)
(***************************************************************************)
C15_CallbackAfterWork ==
    /\ Did.callback # << >> => InIssuer \/ InVerifier
    /\ (Did.callback # << >> /\ InIssuer) =>
          /\ IsForm(last.req.body)
          /\ Did.signed # << >> /\ Did.callback[1].token = Did.signed[1]
    /\ (Did.callback # << >> /\ InVerifier) =>
          LET t == last.req.token.v
          IN  /\ Did.jwtVerify # << >>
              /\ t.wf
              /\ t.mac.p = t.payload
              /\ t.mac.k = StripZeros(last.req.key.v.bytes)
              /\ t.payload["exp"].n > last.at - Tolerance
              /\ last.at - t.payload["iat"].n <= Did.jwtVerify[1].maxTokenAge + Tolerance
    /\ Did.error \in {MissingKeyError, MissingTokenError, FormDataError} \cup JoseErrors
          => NoCallback
\* a token altered after signing is rejected before the callback
C15_Witness ==
    /\ session.has /\ InVerifier /\ last.req.token = Value(Tampered(session.token))
    /\ last.req.key = Value(session.key)
    /\ Did.error = "JWSSignatureVerificationFailed" /\ NoCallback

(***************************************************************************)
(* C16. Every call ends as rejected-as-malformed, on the issuer path or on *)
(* the verifier path; none generates a key and verifies a token; the       *)
(* final "Unexpected state." error is never thrown.                        *)
(***************************************************************************)
C16_OneEnding ==
    Did.mode # "idle" =>
        /\ Did.error # UnexpectedStateError
        /\ \/ /\ Did.mode = "none" /\ NothingDone
              /\ Did.error \in {MissingKeyError, MissingTokenError}
           \/ InIssuer /\ Did.jwtVerify = << >>
           \/ InVerifier /\ Did.jwtVerify # << >> /\ Did.randomBytes = << >>
                         /\ Did.signed = << >>
        /\ ~(Did.randomBytes # << >> /\ Did.jwtVerify # << >>)
\* the verifier path, rejected
C16_Witness ==
    /\ InVerifier /\ Did.error = "JWSInvalid" /\ Did.randomBytes = << >>
    /\ Truthy(last.req.token) /\ Truthy(last.req.key)

(***************************************************************************)
(* C17. Statelessness and replay: a pair (token, key) presented within the *)
(* token's validity window is verified, whatever came before: a successful *)
(* verification of the same pair, an issuance for another user, or the     *)
(* passing of time.                                                        *)
(***************************************************************************)
VerifiedPair == PresentsIssuedPair /\ Did.callback # << >>
IssuedForOther ==
    /\ InIssuer /\ Did.callback # << >>
    /\ session.has /\ session.token # Did.signed[1]
WithinWindow ==
    /\ session.has
    /\ session.token.payload["exp"].n > last.at - Tolerance
    /\ last.at - session.token.payload["iat"].n <= session.lifetime + Tolerance
C18_IssuerSetsTiming ==
    (InIssuer /\ Did.signed # << >>) =>
        /\ Did.signed[1].payload["iat"] = Num(last.at)
        /\ Did.signed[1].payload["exp"] =
              Num(IF options.has /\ options.expiresIn # 0
                  THEN options.expiresIn ELSE 300)
\* a form that submits fields named exp and iat
C18_Witness ==
    /\ InIssuer /\ Did.signed # << >>
    /\ {"exp", "iat"} \subseteq FieldNames(last.req.body)

(***************************************************************************)
(* C19. A parameter present with an empty value is treated like an absent  *)
(* one: "?token=&key=K" fails with the missing-token error, "?token=T&key="*)
(* with the missing-key error, and "?token=&key=" runs the issuer.         *)
(***************************************************************************)
C19_EmptyLikeAbsent ==
    /\ (last.req.token = Empty /\ Truthy(last.req.key)) => Rejected(MissingTokenError)
    /\ (Truthy(last.req.token) /\ last.req.key = Empty) => Rejected(MissingKeyError)
    /\ (last.req.token = Empty /\ last.req.key = Empty) => InIssuer
\* a form posted to "?token=&key=" is issued a token
C19_Witness ==
    /\ last.req.token = Empty /\ last.req.key = Empty
    /\ InIssuer /\ Did.signed # << >>

(***************************************************************************)
(* C20. expiresIn = 0 behaves like expiresIn unset: issuance and           *)
(* verification use the 300-second default, the configuration is not       *)
(* rejected, and its tokens are not always expired.                        *)
(***************************************************************************)
C20_ZeroLikeUnset ==
    options = ExpiresIn(0) =>
        /\ LifetimeUsed(300)
        /\ (InIssuer /\ IsForm(last.req.body)) => Did.signed # << >>
        /\ (PresentsIssuedPair /\ last.at = session.at) => Did.callback # << >>

====
